---- MODULE Spec2Model ----
(***************************************************************************)
(* generate_icon.py: a straight-line script that renders a 1024x1024 RGBA  *)
(* icon (gradient, rounded-corner alpha mask, document glyph) and saves it *)
(* as two PNG files.                                                       *)
(*                                                                         *)
(* Every drawing call of the script acts on each pixel independently, so   *)
(* the canvas is observed through a window of two vertically adjacent      *)
(* pixels (x,y) and (x,y+1) that Init draws from a sample of the canvas;   *)
(* the field "ops" of an image is the sequence of drawing calls applied to *)
(* the whole canvas.  The file system is the destination path (how many of *)
(* its leading components exist) and the content of the files in the       *)
(* destination directory.                                                  *)
(***************************************************************************)
EXTENDS Integers, Sequences, FiniteSets, TLC

VARIABLES
    pc,        \* index into Program of the next statement; Len(Program)+1 when finished
    status,    \* "running", "done" (fell off the end) or "failed" (uncaught exception)
    img,       \* the canvas `img`
    mask,      \* the image `mask`, or NoImage before line 26
    img_512,   \* the image `img_512`, or NoImage before line 94
    fs,        \* the file system: [dlen, files]
    stdout,    \* number of lines printed by the current run
    win,       \* the observed pixels: << <<x,y>>, <<x,y+1>> >>
    run,       \* number of the current invocation of the script
    start,     \* fs as it was when the current run started
    written,   \* names of the files the current run has saved completely
    attempts,  \* statements of the io group the current run has attempted, in order
    failedAt,  \* index of the statement that raised, 0 if none
    prev       \* outcome of the previous run: [ok, files]

vars == <<pc, status, img, mask, img_512, fs, stdout, win, run, start, written,
          attempts, failedAt, prev>>

(***************************** bounds ***************************************)
\* Pixels sampled by the rendering specification: every ColStride-th column
\* (and the key columns of the shapes), every RowStride-th row (and key rows).
ColStride == 93
RowStride == 3
\* Pixels sampled by the full specification (rendering and file system).
RunStride == 256
\* Number of consecutive invocations of the script.
MaxRuns == 2

(***************************** constants of the script **********************)
size == 1024
fill_top == <<60, 130, 246>>
fill_bottom == <<37, 78, 192>>
doc_left == 280
doc_top == 160
doc_right == 744
doc_bottom == 864
corner_fold == 120

doc_points == <<
    <<doc_left, doc_top>>,
    <<doc_right - corner_fold, doc_top>>,
    <<doc_right, doc_top + corner_fold>>,
    <<doc_right, doc_bottom>>,
    <<doc_left, doc_bottom>> >>

fold_points == <<
    <<doc_right - corner_fold, doc_top>>,
    <<doc_right, doc_top + corner_fold>>,
    <<doc_right - corner_fold, doc_top + corner_fold>> >>

line_color == <<120, 160, 220, 160>>
md_color == <<37, 78, 192, 80>>

m_points == <<
    <<380, 680>>, <<420, 680>>, <<460, 730>>, <<500, 680>>, <<540, 680>>,
    <<540, 780>>, <<500, 780>>, <<500, 720>>, <<460, 770>>, <<420, 720>>,
    <<420, 780>>, <<380, 780>> >>

arrow_points == <<
    <<570, 680>>, <<660, 680>>, <<660, 740>>,
    <<690, 740>>, <<615, 790>>, <<540, 740>>,
    <<570, 740>> >>

\* output_dir has eight components below the root.
PathLen == 8
MasterName == "icon_512x512@2x.png"
DerivName == "icon_512x512.png"
\* Any other entry of the destination directory (the script never names one).
OtherName == "other"
FileNames == {MasterName, DerivName, OtherName}

(***************************** the script ***********************************)
\* The drawing statements of the module body after `img`/`draw` are
\* constructed (lines 23-86), in source order.
Drawing == <<
    [op |-> "rounded_rect", name |-> "gradient",
        xy |-> <<0, 0, size, size>>, top |-> fill_top, bottom |-> fill_bottom],
    [op |-> "mask_new", name |-> "mask_new"],
    [op |-> "mask_rounded_rectangle", name |-> "mask_draw",
        xy |-> <<0, 0, size - 1, size - 1>>, radius |-> 220, fill |-> 255],
    [op |-> "putalpha", name |-> "putalpha"],
    [op |-> "polygon", name |-> "page", pts |-> doc_points,
        fill |-> <<255, 255, 255, 230>>],
    [op |-> "polygon", name |-> "fold", pts |-> fold_points,
        fill |-> <<200, 220, 255, 200>>],
    [op |-> "rounded_rectangle", name |-> "heading",
        xy |-> <<340, 340, 700, 380>>, radius |-> 8, fill |-> <<60, 130, 246, 200>>],
    [op |-> "rounded_rectangle", name |-> "line1",
        xy |-> <<340, 420, 680, 448>>, radius |-> 6, fill |-> line_color],
    [op |-> "rounded_rectangle", name |-> "line2",
        xy |-> <<340, 478, 640, 506>>, radius |-> 6, fill |-> line_color],
    [op |-> "rounded_rectangle", name |-> "line3",
        xy |-> <<340, 536, 700, 564>>, radius |-> 6, fill |-> line_color],
    [op |-> "rounded_rectangle", name |-> "line4",
        xy |-> <<340, 594, 580, 622>>, radius |-> 6, fill |-> line_color],
    [op |-> "polygon", name |-> "m", pts |-> m_points, fill |-> md_color],
    [op |-> "polygon", name |-> "arrow", pts |-> arrow_points, fill |-> md_color] >>

\* The statements that persist the canvas (lines 90-97), in source order.
Persist == <<
    [op |-> "makedirs", name |-> "makedirs"],
    [op |-> "save", name |-> "save_master", file |-> MasterName, what |-> "img"],
    [op |-> "resize", name |-> "resize", to |-> <<512, 512>>],
    [op |-> "save", name |-> "save_derivative", file |-> DerivName, what |-> "img_512"],
    [op |-> "print", name |-> "print"] >>

\* Faulty variant: the derivative is resized and saved before the master.
ProgramDerivativeFirst ==
    Drawing \o <<Persist[1], Persist[3], Persist[4], Persist[2], Persist[5]>>

\* The module body: the statements run top to bottom.
Program == Drawing \o Persist

\* Index of the statement called n.
Idx(n) == CHOOSE i \in 1..Len(Program) : Program[i].name = n

Stmt == Program[pc]
AtOp(o) == status = "running" /\ pc \in 1..Len(Program) /\ Stmt.op = o

(***************************** images ***************************************)
NoImage == [mode |-> "none"]

\* Image.new(mode, (size, size), colour), observed through window w: every
\* pixel is `colour`.
ImageNew(w, mode, colour) ==
    [mode |-> mode, size |-> <<size, size>>,
     px |-> [p \in {w[1], w[2]} |-> colour], ops |-> <<>>]

\* Python's int(): truncation toward zero of num/den (den > 0).
Trunc(num, den) == IF num >= 0 THEN num \div den ELSE -((-num) \div den)

\* Faulty variant: the gradient runs from the bottom colour to the top colour.
ChannelReversed(top, bottom, y, y0, y1) ==
    Trunc(bottom * (y1 - y0) + (y - y0) * (top - bottom), y1 - y0)

\* Faulty variant: round() in place of int().
ChannelRounded(top, bottom, y, y0, y1) ==
    (2 * (top * (y1 - y0) + (y - y0) * (bottom - top)) + (y1 - y0))
        \div (2 * (y1 - y0))

\* int(top + t * (bottom - top)) with t = (y - y0) / (y1 - y0).  The float
\* operations are exact here: t is a multiple of 1/1024 and the products
\* and sums have fewer than 53 significant bits.
Channel(top, bottom, y, y0, y1) ==
    Trunc(top * (y1 - y0) + (y - y0) * (bottom - top), y1 - y0)

\* The ink of scanline y in rounded_rect.
ScanColor(top, bottom, y, y0, y1) ==
    << Channel(top[1], bottom[1], y, y0, y1),
       Channel(top[2], bottom[2], y, y0, y1),
       Channel(top[3], bottom[3], y, y0, y1),
       255 >>

\* rounded_rect(draw, xy, radius, fill_top, fill_bottom) at pixel p: for y in
\* range(y0, y1) the line from (x0, y) to (x1, y), both ends included, is
\* set to the scanline's ink (drawing outside the canvas is clipped).
rounded_rect(old, p, xy, top, bottom) ==
    IF /\ p[2] \in xy[2]..(xy[4] - 1)
       /\ p[1] \in xy[1]..xy[3]
    THEN ScanColor(top, bottom, p[2], xy[2], xy[4])
    ELSE old

(***************************** shapes ***************************************)
Sq(a) == a * a

\* ImageDraw.rounded_rectangle(xy, radius, fill) covers pixel p: a middle
\* rectangle of full height, a left and a right rectangle between the
\* corners, and four quarter discs of the given radius (pieslices of the
\* ellipse inscribed in the 2r x 2r corner boxes).  The shapes of the script
\* are all wider and higher than 2r + 1.
InRoundedRectangle(p, xy, r) ==
    LET x == p[1]  y == p[2]
        x0 == xy[1]  y0 == xy[2]  x1 == xy[3]  y1 == xy[4]
        InDisc(cx, cy) == Sq(x - cx) + Sq(y - cy) <= Sq(r)
    IN  /\ x \in x0..x1 /\ y \in y0..y1
        /\ \/ x \in (x0 + r + 1)..(x1 - r - 1)
           \/ y \in (y0 + r + 1)..(y1 - r - 1)
           \/ x <= x0 + r /\ y <= y0 + r /\ InDisc(x0 + r, y0 + r)
           \/ x >= x1 - r /\ y <= y0 + r /\ InDisc(x1 - r, y0 + r)
           \/ x >= x1 - r /\ y >= y1 - r /\ InDisc(x1 - r, y1 - r)
           \/ x <= x0 + r /\ y >= y1 - r /\ InDisc(x0 + r, y1 - r)

\* The edges of a polygon: consecutive points, closed.
EdgesOf(pts) == { <<pts[i], pts[(i % Len(pts)) + 1]>> : i \in 1..Len(pts) }
Lo(e) == IF e[1][2] <= e[2][2] THEN e[1] ELSE e[2]
Hi(e) == IF e[1][2] <= e[2][2] THEN e[2] ELSE e[1]
Dy(e) == Hi(e)[2] - Lo(e)[2]
\* 2 * Dy(e) * (abscissa where edge e meets scanline y).
Cross2(e, y) == 2 * (Lo(e)[1] * Dy(e) + (y - Lo(e)[2]) * (Hi(e)[1] - Lo(e)[1]))

\* ImageDraw.polygon(pts, fill) covers pixel p: the scanline fill of the
\* polygon (even-odd rule), each span rounded outward to the nearest pixel,
\* so a pixel within half a pixel of an edge, or on a horizontal edge, is
\* inked too.
InPolygon(p, pts) ==
    LET x == p[1]  y == p[2]
        OnEdge(e) ==
            IF Dy(e) = 0
            THEN /\ y = Lo(e)[2]
                 /\ \/ e[1][1] <= x /\ x <= e[2][1]
                    \/ e[2][1] <= x /\ x <= e[1][1]
            ELSE /\ Lo(e)[2] <= y /\ y <= Hi(e)[2]
                 /\ (2 * x - 1) * Dy(e) < Cross2(e, y)
                 /\ Cross2(e, y) < (2 * x + 1) * Dy(e)
        Left == { e \in EdgesOf(pts) :
                    /\ Dy(e) > 0
                    /\ Lo(e)[2] <= y /\ y < Hi(e)[2]
                    /\ Cross2(e, y) <= (2 * x - 1) * Dy(e) }
    IN  \/ \E e \in EdgesOf(pts) : OnEdge(e)
        \/ Cardinality(Left) % 2 = 1

\* Does the shape of statement s cover pixel p?
Covers(s, p) ==
    CASE s.op = "polygon" -> InPolygon(p, s.pts)
      [] s.op = "rounded_rectangle" -> InRoundedRectangle(p, s.xy, s.radius)
      [] OTHER -> FALSE

\* Faulty variant: the ink is alpha-composited over the pixel.
InkBlended(old, fill, covered) ==
    IF covered
    THEN LET a == fill[4]
             Mix(c) == (fill[c] * a + old[c] * (255 - a)) \div 255
         IN  <<Mix(1), Mix(2), Mix(3), a + (old[4] * (255 - a)) \div 255>>
    ELSE old

\* Drawing on an RGBA image through ImageDraw.Draw(img): the ink replaces
\* all four channels of a covered pixel (no alpha blending).
Ink(old, fill, covered) == IF covered THEN fill ELSE old

\* Drawing on the single-channel mask: the ink replaces the pixel's value.
InkL(old, fill, covered) == IF covered THEN fill ELSE old

\* img.putalpha(mask): the alpha channel becomes the mask's value.
PutAlphaPixel(old, m) == <<old[1], old[2], old[3], m>>

Applied(image, s, newpx) ==
    [image EXCEPT !.px = newpx, !.ops = Append(@, s.name)]

(***************************** file system **********************************)
Absent == [kind |-> "absent"]
Old == [kind |-> "old"]
Partial == [kind |-> "partial"]

\* Faulty variant: the encoder stamps the file with the invocation.
PngTimestamped(image) ==
    [kind |-> "png", size |-> image.size, px |-> image.px, ops |-> image.ops,
     time |-> run]

\* The PNG file Image.save writes for an image: its raster, losslessly.
Png(image) == [kind |-> "png", size |-> image.size, px |-> image.px,
               ops |-> image.ops]

\* Faulty variant: the copy keeps the size of its source.
ResizedKeepsSize(image, to) ==
    [mode |-> image.mode, size |-> image.size,
     px |-> [filter |-> "LANCZOS", of |-> image.px],
     ops |-> Append(image.ops, "resize")]

\* img.resize((w, h), Image.LANCZOS): a new image of the requested size whose
\* pixels are a fixed function (the Lanczos filter) of the source raster.
Resized(image, to) ==
    [mode |-> image.mode, size |-> to,
     px |-> [filter |-> "LANCZOS", of |-> image.px],
     ops |-> Append(image.ops, "resize")]

DirExists(f) == f.dlen = PathLen

(***************************** initial states *******************************)
KeyCols == {0, 219, 220, 221, doc_left, 340, 380, 420, 460, 500, 540, 570, 615,
            doc_right - corner_fold, 660, 690, 700, doc_right, 803, size - 1}
KeyRows == {0, 64, 65, doc_top - 1, doc_top, 219, 220, 221, doc_top + corner_fold,
            339, 340, 380, 420, 448, 679, 680, 729, 730, 740, 780, 789, 790,
            doc_bottom - 1, doc_bottom, 958, 959, size - 2}

RenderSample ==
    { x \in 0..(size - 1) : x % ColStride = 0 \/ x \in KeyCols }
        \X { y \in 0..(size - 2) : y % RowStride = 0 \/ y \in KeyRows }

RunSample ==
    { x \in 0..(size - 1) : x % RunStride = 0 \/ x = size - 1 }
        \X { y \in 0..(size - 2) : y % RunStride = 0 \/ y = doc_top - 1 }

\* File systems a run can start from: the destination path exists up to some
\* component; only an existing destination directory holds files.
InitialFs ==
    { [dlen |-> d, files |-> f] :
        d \in 0..PathLen, f \in [FileNames -> {Absent, Old}] }

StartFs == { f \in InitialFs :
                ~DirExists(f) => \A n \in FileNames : f.files[n] = Absent }

Fresh(w, f) ==
    /\ pc = 1
    /\ status = "running"
    /\ img = ImageNew(w, "RGBA", <<0, 0, 0, 0>>)
    /\ mask = NoImage
    /\ img_512 = NoImage
    /\ fs = f
    /\ stdout = 0
    /\ win = w
    /\ run = 1
    /\ start = f
    /\ written = {}
    /\ attempts = <<>>
    /\ failedAt = 0
    /\ prev = [ok |-> FALSE, files |-> f.files]

Init == \E p \in RunSample, f \in StartFs :
            Fresh(<<p, <<p[1], p[2] + 1>>>>, f)

InitRender == \E p \in RenderSample :
            Fresh(<<p, <<p[1], p[2] + 1>>>>,
                  [dlen |-> PathLen, files |-> [n \in FileNames |-> Absent]])

(***************************** actions: rendering ***************************)
Step == /\ pc' = pc + 1
        /\ status' = IF pc = Len(Program) THEN "done" ELSE "running"

Frame == UNCHANGED <<win, run, start, prev, failedAt>>

\* line 23: rounded_rect(draw, (0, 0, size, size), 180, fill_top, fill_bottom)
Gradient ==
    /\ AtOp("rounded_rect")
    /\ img' = Applied(img, Stmt,
                [p \in DOMAIN img.px |->
                    rounded_rect(img.px[p], p, Stmt.xy, Stmt.top, Stmt.bottom)])
    /\ Step /\ Frame
    /\ UNCHANGED <<mask, img_512, fs, stdout, written, attempts>>

\* line 26: mask = Image.new('L', (size, size), 0)
MaskNew ==
    /\ AtOp("mask_new")
    /\ mask' = ImageNew(win, "L", 0)
    /\ Step /\ Frame
    /\ UNCHANGED <<img, img_512, fs, stdout, written, attempts>>

\* line 28: mask_draw.rounded_rectangle([(0, 0), (size-1, size-1)], radius=220, fill=255)
MaskDraw ==
    /\ AtOp("mask_rounded_rectangle")
    /\ mask' = Applied(mask, Stmt,
                [p \in DOMAIN mask.px |->
                    InkL(mask.px[p], Stmt.fill,
                        InRoundedRectangle(p, Stmt.xy, Stmt.radius))])
    /\ Step /\ Frame
    /\ UNCHANGED <<img, img_512, fs, stdout, written, attempts>>

\* line 29: img.putalpha(mask)
PutAlpha ==
    /\ AtOp("putalpha")
    /\ img' = Applied(img, Stmt,
                [p \in DOMAIN img.px |-> PutAlphaPixel(img.px[p], mask.px[p])])
    /\ Step /\ Frame
    /\ UNCHANGED <<mask, img_512, fs, stdout, written, attempts>>

\* lines 47, 55, 78, 86: draw.polygon(points, fill=...)
DrawPolygon ==
    /\ AtOp("polygon")
    /\ img' = Applied(img, Stmt,
                [p \in DOMAIN img.px |->
                    Ink(img.px[p], Stmt.fill, InPolygon(p, Stmt.pts))])
    /\ Step /\ Frame
    /\ UNCHANGED <<mask, img_512, fs, stdout, written, attempts>>

\* lines 59, 63-66: draw.rounded_rectangle([...], radius=..., fill=...)
DrawRoundedRectangle ==
    /\ AtOp("rounded_rectangle")
    /\ img' = Applied(img, Stmt,
                [p \in DOMAIN img.px |->
                    Ink(img.px[p], Stmt.fill,
                        InRoundedRectangle(p, Stmt.xy, Stmt.radius))])
    /\ Step /\ Frame
    /\ UNCHANGED <<mask, img_512, fs, stdout, written, attempts>>

(***************************** actions: persistence *************************)
\* Faulty variant: the exception is swallowed and the script goes on.
RaiseSwallowed ==
    /\ status' = "running"
    /\ failedAt' = pc
    /\ pc' = pc + 1
    /\ UNCHANGED <<win, run, start, prev>>

\* An exception nothing catches: the interpreter stops at the statement.
Raise ==
    /\ status' = "failed"
    /\ failedAt' = pc
    /\ UNCHANGED <<pc, win, run, start, prev>>

\* Faulty variant: only the parent of output_dir is created.
MakedirsParentOnly ==
    /\ AtOp("makedirs")
    /\ fs' = [fs EXCEPT !.dlen = IF @ < PathLen - 1 THEN PathLen - 1 ELSE @]
    /\ attempts' = Append(attempts, Stmt.name)
    /\ Step /\ Frame
    /\ UNCHANGED <<img, mask, img_512, stdout, written>>

\* line 90: os.makedirs(output_dir, exist_ok=True) creates every missing
\* component; an existing directory is left alone.
Makedirs ==
    /\ AtOp("makedirs")
    /\ fs' = [fs EXCEPT !.dlen = PathLen]
    /\ attempts' = Append(attempts, Stmt.name)
    /\ Step /\ Frame
    /\ UNCHANGED <<img, mask, img_512, stdout, written>>

\* line 90, the file system rejecting the creation of a missing component:
\* OSError; the components created before it stay.
MakedirsFail ==
    /\ AtOp("makedirs")
    /\ ~DirExists(fs)
    /\ \E d \in fs.dlen..(PathLen - 1) : fs' = [fs EXCEPT !.dlen = d]
    /\ attempts' = Append(attempts, Stmt.name)
    /\ Raise
    /\ UNCHANGED <<img, mask, img_512, stdout, written>>

Source(what) == IF what = "img" THEN img ELSE img_512

\* Faulty variant: a file that is already there is not overwritten.
SaveKeepExisting ==
    /\ AtOp("save")
    /\ DirExists(fs)
    /\ fs' = [fs EXCEPT !.files[Stmt.file] =
                IF @ = Absent THEN Png(Source(Stmt.what)) ELSE @]
    /\ written' = written \cup {Stmt.file}
    /\ attempts' = Append(attempts, Stmt.name)
    /\ Step /\ Frame
    /\ UNCHANGED <<img, mask, img_512, stdout>>

\* lines 91, 95: image.save(os.path.join(output_dir, name), 'PNG')
Save ==
    /\ AtOp("save")
    /\ DirExists(fs)
    /\ fs' = [fs EXCEPT !.files[Stmt.file] = Png(Source(Stmt.what))]
    /\ written' = written \cup {Stmt.file}
    /\ attempts' = Append(attempts, Stmt.name)
    /\ Step /\ Frame
    /\ UNCHANGED <<img, mask, img_512, stdout>>

\* lines 91, 95, the save raising OSError (not writable, disk full): the
\* file is as it was (it could not be opened, or Pillow removed the file it
\* had created) or is left partially written.
SaveFail ==
    /\ AtOp("save")
    /\ \E c \in {fs.files[Stmt.file], Partial} :
            fs' = [fs EXCEPT !.files[Stmt.file] = c]
    /\ attempts' = Append(attempts, Stmt.name)
    /\ Raise
    /\ UNCHANGED <<img, mask, img_512, stdout, written>>

\* line 94: img_512 = img.resize((512, 512), Image.LANCZOS)
Resize ==
    /\ AtOp("resize")
    /\ img_512' = Resized(img, Stmt.to)
    /\ Step /\ Frame
    /\ UNCHANGED <<img, mask, fs, stdout, written, attempts>>

\* line 97: print("Icon generated successfully!")
PrintMsg ==
    /\ AtOp("print")
    /\ stdout' = stdout + 1
    /\ Step /\ Frame
    /\ UNCHANGED <<img, mask, img_512, fs, written, attempts>>

\* The script is invoked again after the previous invocation has ended
\* (normally or with an uncaught exception), on the file system it left.
Rerun ==
    /\ status \in {"done", "failed"}
    /\ run < MaxRuns
    /\ run' = run + 1
    /\ prev' = [ok |-> status = "done", files |-> fs.files]
    /\ start' = fs
    /\ pc' = 1
    /\ status' = "running"
    /\ img' = ImageNew(win, "RGBA", <<0, 0, 0, 0>>)
    /\ mask' = NoImage
    /\ img_512' = NoImage
    /\ stdout' = 0
    /\ written' = {}
    /\ attempts' = <<>>
    /\ failedAt' = 0
    /\ UNCHANGED <<fs, win>>

Render ==
    \/ Gradient
    \/ MaskNew
    \/ MaskDraw
    \/ PutAlpha
    \/ DrawPolygon
    \/ DrawRoundedRectangle

Next ==
    \/ Render
    \/ Makedirs
    \/ MakedirsFail
    \/ Save
    \/ SaveFail
    \/ Resize
    \/ PrintMsg
    \/ Rerun

\* The whole script, run up to MaxRuns times, on a sparse sample of pixels.
Spec == Init /\ [][Next]_vars

\* The rendering statements alone, on a dense sample of pixels.
SpecRender == InitRender /\ [][Render]_vars

(***************************** properties ***********************************)
\* Indices of the statements that draw a glyph shape.
GlyphIdx == { i \in 1..Len(Drawing) : Drawing[i].op \in {"polygon", "rounded_rectangle"} }
\* Every drawing statement has run: the canvas is the one that gets saved.
CanvasFinished == pc > Len(Drawing)
\* The glyph shapes covering pixel p.
Covering(p) == { i \in GlyphIdx : Covers(Drawing[i], p) }
\* A glyph shape drawn so far covers pixel p.
GlyphDrawn(p) == \E i \in Covering(p) : i < pc
Last(S) == CHOOSE i \in S : \A j \in S : j <= i
\* The corner-clip region of line 28.
InClip(p) == InRoundedRectangle(p, <<0, 0, size - 1, size - 1>>, 220)
\* Strictly inside the rectangle left between the four corner boxes.
InInner(p) == /\ 220 < p[1] /\ p[1] < size - 1 - 220
              /\ 220 < p[2] /\ p[2] < size - 1 - 220
Rgb(v) == <<v[1], v[2], v[3]>>
AbsentAll(f) == \A n \in FileNames : f.files[n] = Absent
ModifiesCanvas(n) == n \notin {"mask_new", "mask_draw"}
\* The drawing calls that reach `img`, in source order.
ImgOps == SelectSeq([i \in 1..Len(Drawing) |-> Drawing[i].name], ModifiesCanvas)
IsIo(s) == s.op \in {"makedirs", "save"}
\* Names of the makedirs/save statements among the first k statements.
IoNames(k) ==
    LET io == SelectSeq(SubSeq(Program, 1, k), IsIo)
    IN  [i \in 1..Len(io) |-> io[i].name]
Attempted(n) == \E i \in 1..Len(attempts) : attempts[i] = n

\* C1: in the master image a run writes, every pixel outside the corner-clip
\* region has alpha 0 and every pixel strictly inside the inner rectangle has
\* alpha 255.  (Violated: the glyph fills replace the alpha of the pixels
\* they cover with 230, 200, 160 or 80.)
C1_MasterAlpha ==
    MasterName \in written =>
        \A p \in DOMAIN fs.files[MasterName].px :
            /\ ~InClip(p) => fs.files[MasterName].px[p][4] = 0
            /\ InInner(p) => fs.files[MasterName].px[p][4] = 255

\* C2 as stated: the run can end "the other way round", the master save
\* having failed and the derivative written by that run.
C2_ViceVersa ==
    (status = "failed" /\ failedAt = Idx("save_master")) => DerivName \in written

\* C2 amended: the saves are sequential, master first.  A failed derivative
\* save leaves the master written by the run and the derivative not written;
\* a failed master save ends the run before the derivative save is
\* attempted; so a run that wrote the derivative also wrote the master.
C2_MasterFirst ==
    /\ DerivName \in written => MasterName \in written
    /\ failedAt = Idx("save_derivative") =>
            /\ MasterName \in written
            /\ DerivName \notin written
            /\ fs.files[MasterName] = Png(img)
    /\ failedAt = Idx("save_master") =>
            /\ written = {}
            /\ ~Attempted("save_derivative")
            /\ img_512 = NoImage

C2_Witness ==
    /\ status = "failed"
    /\ failedAt = Idx("save_derivative")
    /\ MasterName \in written
    /\ fs.files[MasterName].kind = "png"
    /\ fs.files[DerivName] = Absent

\* C3: a written master is 1024x1024, a written derivative is 512x512 (half
\* the master each way) and is computed from the finished canvas: the raster
\* that was saved as the master, after every drawing call.
C3_Dimensions ==
    /\ MasterName \in written =>
            /\ fs.files[MasterName].size = <<1024, 1024>>
            /\ fs.files[MasterName].ops = ImgOps
    /\ DerivName \in written =>
            /\ fs.files[DerivName].size = <<512, 512>>
            /\ 2 * fs.files[DerivName].size[1] = fs.files[MasterName].size[1]
            /\ 2 * fs.files[DerivName].size[2] = fs.files[MasterName].size[2]
            /\ fs.files[DerivName].px.of = fs.files[MasterName].px
            /\ fs.files[DerivName].ops = Append(ImgOps, "resize")

C3_Witness ==
    /\ written = {MasterName, DerivName}
    /\ fs.files[DerivName].size = <<512, 512>>
    /\ fs.files[DerivName].px.of = img.px
    /\ Len(img.ops) = Len(Drawing) - 2

C5_BlueMonotonicInMaster ==
    CanvasFinished => img.px[win[2]][3] <= img.px[win[1]][3]

\* C5 amended: once the background is filled, for a fixed column, blue at
\* row y+1 is at most blue at row y whenever neither of the two pixels is
\* covered by a glyph shape drawn so far (so: everywhere before the glyph is
\* drawn, and outside the glyph in the generated master image).
C5_BlueMonotonicBackground ==
    (pc > Idx("gradient") /\ ~GlyphDrawn(win[1]) /\ ~GlyphDrawn(win[2])) =>
        img.px[win[2]][3] <= img.px[win[1]][3]

C5_Witness ==
    /\ CanvasFinished
    /\ Covering(win[1]) = {} /\ Covering(win[2]) = {}
    /\ img.px[win[2]][3] < img.px[win[1]][3]

\* C6: no run touches any other file of the directory; a successful run
\* leaves the new master and the new derivative at the two paths, whatever
\* was there before; from a clean directory these are the only two files.
C6_TwoFiles ==
    /\ fs.files[OtherName] = start.files[OtherName]
    /\ status = "done" =>
            /\ fs.files[MasterName] = Png(img)
            /\ fs.files[DerivName] = Png(img_512)
            /\ AbsentAll(start) =>
                { n \in FileNames : fs.files[n] # Absent } = {MasterName, DerivName}

C6_Witness ==
    /\ status = "done"
    /\ run = 1
    /\ DirExists(start) /\ AbsentAll(start)
    /\ { n \in FileNames : fs.files[n].kind = "png" } = {MasterName, DerivName}

\* C7: once the directory step has completed the destination directory
\* exists with all its parents, and it is the first of the io steps, so it
\* precedes both saves; when the directory already existed the directory
\* step raises nothing and leaves it as it was.
C7_DirectoryFirst ==
    /\ (failedAt = 0 /\ pc > Idx("makedirs")) => DirExists(fs)
    /\ attempts # <<>> => attempts[1] = "makedirs"
    /\ written # {} => DirExists(fs)
    /\ DirExists(start) => (failedAt # Idx("makedirs") /\ fs.dlen = start.dlen)

C7_Witness ==
    /\ start.dlen = 0
    /\ run = 1
    /\ DirExists(fs)
    /\ MasterName \in written

\* C8: the message is printed at most once, exactly when the run has
\* completed, and then both files have been written by the run; a run in
\* which the directory step or a save raised stays at that statement, has
\* attempted each io statement up to it exactly once and none after it, and
\* has printed nothing.
C8_PrintOnSuccess ==
    /\ stdout \in {0, 1}
    /\ stdout = 1 <=> status = "done"
    /\ stdout = 1 => (written = {MasterName, DerivName}
                        /\ attempts = IoNames(Len(Program)))
    /\ status = "failed" <=> failedAt # 0
    /\ failedAt # 0 =>
            /\ pc = failedAt
            /\ IsIo(Program[failedAt])
            /\ attempts = IoNames(failedAt)
            /\ stdout = 0

C8_Witness ==
    /\ status = "failed"
    /\ failedAt = Idx("save_master")
    /\ attempts = <<"makedirs", "save_master">>
    /\ stdout = 0

\* C9: after the background fill and before the mask is applied, a pixel of
\* row y has alpha 255 and each colour channel is the integer part of
\* top + (y/1024)*(bottom - top); row 0 is the top colour and row 1023 the
\* bottom colour.
C9_GradientRows ==
    (pc > Idx("gradient") /\ pc <= Idx("putalpha")) =>
        \A p \in DOMAIN img.px :
            /\ img.px[p][4] = 255
            /\ \A c \in 1..3 :
                LET exact == 1024 * fill_top[c] + p[2] * (fill_bottom[c] - fill_top[c])
                IN  /\ 1024 * img.px[p][c] <= exact
                    /\ exact < 1024 * (img.px[p][c] + 1)
            /\ p[2] = 0 => Rgb(img.px[p]) = <<60, 130, 246>>
            /\ p[2] = 1023 => Rgb(img.px[p]) = <<37, 78, 192>>

C9_Witness ==
    /\ pc = Idx("putalpha")
    /\ win[2][2] = 1023
    /\ img.px[win[2]] = <<37, 78, 192, 255>>
    /\ mask.px[win[2]] = 255

\* C10: the canvas receives the gradient, the mask and then the glyph shapes
\* in the order page, fold, heading, four body lines, M, arrow; in the
\* finished canvas a pixel covered by a glyph shape has the RGBA fill of the
\* last-drawn shape covering it, and any other pixel has its gradient colour
\* with alpha 255 inside the corner-clip region and 0 outside.
C10_LastShapeWins ==
    CanvasFinished =>
        /\ img.ops = <<"gradient", "putalpha", "page", "fold", "heading",
                       "line1", "line2", "line3", "line4", "m", "arrow">>
        /\ \A p \in DOMAIN img.px :
            IF Covering(p) # {}
            THEN img.px[p] = Drawing[Last(Covering(p))].fill
            ELSE /\ Rgb(img.px[p]) = Rgb(ScanColor(fill_top, fill_bottom, p[2], 0, size))
                 /\ img.px[p][4] = IF InClip(p) THEN 255 ELSE 0

C10_Witness ==
    /\ CanvasFinished
    /\ Covering(win[1]) = {Idx("page"), Idx("m"), Idx("arrow")}
    /\ img.px[win[1]] = md_color
    /\ Covering(win[2]) # {}

====
